---- MODULE Spec2Model ----
(***************************************************************************)
(* The SSE connection registry and transcript broadcaster of               *)
(* ExampleReactApp (src/src/index.ts): the map sseConnections from userId  *)
(* to the array of open express responses, the GET /api/transcripts        *)
(* handler with its req.on('close') handler, sendTranscriptUpdate, and the *)
(* onSession callbacks onTranscription and onDisconnected.                 *)
(***************************************************************************)
EXTENDS Integers, Sequences, FiniteSets, TLC

\* ---------------------------------------------------------------- bounds
MaxHandles == 2     \* response objects alive at the same time
MaxSessions == 1    \* sessions active at the same time
MaxPublishes == 2   \* transcription updates delivered in a run

Handles == 1..MaxHandles
Identities == {"alice", "bob"}

\* the transcription updates a session delivers (data.text, data.isFinal),
\* each with the value Date.now() has when its callback runs
Updates == {[text |-> "hi", isFinal |-> FALSE, now |-> 1000],
            [text |-> "yo", isFinal |-> TRUE, now |-> 1001]}

\* req.authUserId is a string or undefined; "" and undefined are falsy
Undefined == "undefined!"
AuthUserIds == Identities \cup {Undefined, ""}
Falsy(x) == x \in {Undefined, ""}

NoHandle == 0

VARIABLES
    sseConnections,  \* Map<string, express.Response[]>
    conn,            \* per response: "idle" (no such object), "open", or
                     \* "dead" (connection over, 'close' not yet dispatched)
    userOf,          \* per response: the userId captured by the route handler
    ended,           \* per response: res.end() was called
    writes,          \* per response: the res.write calls made, in order
    sessions,        \* per userId: the number of active sessions
    nPublished,      \* the number of sendTranscriptUpdate calls made so far
    last,            \* the handler that ran last, with the registry before it
    env,             \* the server file that runs and what it finds: NODE_ENV
                     \* and whether dist/frontend exists
    routes,          \* the Express router stack, in registration order
    pc,              \* the next statement of the route setup, 0 when no
                     \* setup is running
    served,          \* the requests dispatched so far and who handled each
    frontendToken,   \* TranscriptDisplay: the token useMentraAuth gives
    mounted,         \* TranscriptDisplay: the component is mounted
    eventSourceRef,  \* TranscriptDisplay: eventSourceRef.current
    readyState,      \* per EventSource: "none" (not created), "connecting",
                     \* "open" or "closed"
    timers,          \* the EventSources whose onerror timeout is pending
    isConnected,     \* TranscriptDisplay: the isConnected state
    connectionError, \* TranscriptDisplay: the connectionError state
    serverUp,        \* the backend accepts connections
    nErrors,         \* stream errors so far
    nEffects,        \* runs of the effect so far
    owner,           \* per EventSource: "none" (not created), "live" (made
                     \* by the effect run in force), "cleaned" (made by a
                     \* run of this component that was cleaned up) or
                     \* "gone" (made by a component that has unmounted)
    currentTranscript, \* TranscriptDisplay: the currentTranscript state
    received,        \* the event.data of the messages the mounted
                     \* component was handed, in order
    standalone       \* the standalone server given the same events as the
                     \* class-based one: its module-level sseConnections
                     \* and the res.write calls made on its responses

registryVars == <<sseConnections, conn, userOf, ended, writes, sessions,
                  nPublished, last>>

routeVars == <<env, routes, pc, served>>

clientVars == <<frontendToken, mounted, eventSourceRef, readyState, timers,
                isConnected, connectionError, serverUp, nErrors, nEffects,
                owner, currentTranscript, received>>

\* all that the handlers of one server's registry leave alone
frontVars == <<routeVars, clientVars, standalone>>

vars == <<registryVars, frontVars>>

\* ------------------------------------------------------- wire conversion
\* JSON.stringify({ type: 'transcript', ...transcript })
TranscriptJson(transcript) ==
    [type |-> "transcript", text |-> transcript.text,
     timestamp |-> transcript.timestamp, isFinal |-> transcript.isFinal]

\* a 'connected' event that does not name the user
ConnectedJsonNoUser(userId) == [type |-> "connected", userId |-> Undefined]

\* JSON.stringify({ type: 'connected', userId })
ConnectedJson(userId) == [type |-> "connected", userId |-> userId]

\* `data: ${data}\n\n`
SSEFrame(data) == [prefix |-> "data: ", data |-> data, suffix |-> "\n\n"]

\* one res.write call: the frame, and the index of the publish it belongs
\* to (0 for the acknowledgment written by the route handler)
WriteCall(n, frame) == [seq |-> n, frame |-> frame]

\* ------------------------------------------------------ array operations
\* connections.indexOf(res): 1-based here, 0 for "not found" (-1 in JS)
RECURSIVE IndexFrom(_, _, _)
IndexFrom(arr, x, i) ==
    IF i > Len(arr) THEN 0
    ELSE IF arr[i] = x THEN i
    ELSE IndexFrom(arr, x, i + 1)

IndexOf(arr, x) == IndexFrom(arr, x, 1)

\* splice that drops the last element whatever the index (connections.pop())
SplicePop(arr, i) == SubSeq(arr, 1, Len(arr) - 1)

\* connections.splice(index, 1) for a found index
Splice1(arr, i) ==
    [k \in 1..(Len(arr) - 1) |-> IF k < i THEN arr[k] ELSE arr[k + 1]]

\* Map.prototype.has / get / set / delete
MapHas(m, k) == k \in DOMAIN m
MapSet(m, k, v) == [x \in (DOMAIN m) \cup {k} |-> IF x = k THEN v ELSE m[x]]
MapDelete(m, k) == [x \in (DOMAIN m) \ {k} |-> m[x]]

\* --------------------------------------------------------- the registry
\* register with a misplaced else: a new entry is created empty and the
\* response is pushed only onto an entry that existed already
RegisterElse(m, userId, res) ==
    IF ~MapHas(m, userId) THEN MapSet(m, userId, <<>>)
    ELSE MapSet(m, userId, Append(m[userId], res))

\* register that always starts a new array: set(userId, [res])
RegisterReplace(m, userId, res) == MapSet(m, userId, <<res>>)

\* register that pushes the response twice
RegisterTwice(m, userId, res) ==
    LET m1 == IF ~MapHas(m, userId) THEN MapSet(m, userId, <<>>) ELSE m
    IN  MapSet(m1, userId, Append(Append(m1[userId], res), res))

\* if (!has(userId)) set(userId, []); get(userId)!.push(res)
Register(m, userId, res) ==
    LET m1 == IF ~MapHas(m, userId) THEN MapSet(m, userId, <<>>) ELSE m
    IN  MapSet(m1, userId, Append(m1[userId], res))

\* close handler that drops the user's entry whatever it holds
CloseHandlerDeleteEntry(m, userId, res) == MapDelete(m, userId)

\* close handler without the `index > -1` guard: splice(-1, 1) removes the
\* last element of the array when res is not in it
CloseHandlerNoGuard(m, userId, res) ==
    IF MapHas(m, userId)
    THEN LET connections == m[userId]
             index == IndexOf(connections, res)
             after == IF index > 0 THEN Splice1(connections, index)
                      ELSE SubSeq(connections, 1, Len(connections) - 1)
         IN  IF Len(after) = 0 THEN MapDelete(m, userId)
             ELSE MapSet(m, userId, after)
    ELSE m

\* close handler with the guard `index > 0`: the first element of the
\* array is never removed
CloseHandlerOffByOne(m, userId, res) ==
    IF MapHas(m, userId)
    THEN LET connections == m[userId]
             index == IndexOf(connections, res)
             after == IF index > 1 THEN Splice1(connections, index)
                      ELSE connections
         IN  IF Len(after) = 0 THEN MapDelete(m, userId)
             ELSE MapSet(m, userId, after)
    ELSE m

\* close handler without the `connections.length === 0` deletion
CloseHandlerKeepEmpty(m, userId, res) ==
    IF MapHas(m, userId)
    THEN LET connections == m[userId]
             index == IndexOf(connections, res)
             after == IF index > 0 THEN Splice1(connections, index)
                      ELSE connections
         IN  MapSet(m, userId, after)
    ELSE m

\* the body of the req.on('close') handler
CloseHandler(m, userId, res) ==
    IF MapHas(m, userId)
    THEN LET connections == m[userId]
             index == IndexOf(connections, res)
             after == IF index > 0 THEN Splice1(connections, index)
                      ELSE connections
         IN  IF Len(after) = 0 THEN MapDelete(m, userId)
             ELSE MapSet(m, userId, after)
    ELSE m

\* onDisconnected that clears the whole map: this.sseConnections.clear()
CloseAllClear(m, userId) == <<>>

\* onDisconnected without the sseConnections.delete(userId)
CloseAllKeepEntry(m, userId) == m

\* the registry part of the onDisconnected callback:
\* if (connections) { ...; this.sseConnections.delete(userId) }
CloseAll(m, userId) ==
    IF MapHas(m, userId) THEN MapDelete(m, userId) ELSE m

\* the handles the lookup for userId yields
Snapshot(m, userId) == IF MapHas(m, userId) THEN m[userId] ELSE <<>>

Range(s) == {s[i] : i \in 1..Len(s)}

\* connections.forEach(res => res.write(...)): the writes are issued in
\* array order; a write that throws ends the forEach and the exception
\* leaves sendTranscriptUpdate (there is no try/catch around it)
RECURSIVE ForEachWrite(_, _, _, _)
ForEachWrite(connections, w, call, throwers) ==
    IF connections = <<>> THEN [writes |-> w, threw |-> FALSE]
    ELSE LET res == Head(connections)
             w1 == [w EXCEPT ![res] = Append(@, call)]
         IN  IF res \in throwers THEN [writes |-> w1, threw |-> TRUE]
             ELSE ForEachWrite(Tail(connections), w1, call, throwers)

\* sendTranscriptUpdate that ignores userId and writes to the responses of
\* every entry of the map
RECURSIVE Flatten(_, _)
Flatten(m, keys) ==
    IF keys = {} THEN <<>>
    ELSE LET k == CHOOSE x \in keys : TRUE
         IN  m[k] \o Flatten(m, keys \ {k})

SendToEveryone(m, w, userId, transcript, n, throwers) ==
    ForEachWrite(Flatten(m, DOMAIN m), w,
                 WriteCall(n, SSEFrame(TranscriptJson(transcript))), throwers)

\* sendTranscriptUpdate without the `if (connections)` test: forEach of
\* undefined is a TypeError
SendNoLookupTest(m, w, userId, transcript, n, throwers) ==
    IF MapHas(m, userId)
    THEN ForEachWrite(m[userId], w,
                      WriteCall(n, SSEFrame(TranscriptJson(transcript))), throwers)
    ELSE [writes |-> w, threw |-> TRUE]

\* sendTranscriptUpdate that puts the event in front of what the response
\* was sent before
SendPrepend(m, w, userId, transcript, n, throwers) ==
    LET call == WriteCall(n, SSEFrame(TranscriptJson(transcript)))
        hs == Range(Snapshot(m, userId))
    IN  [writes |-> [h \in DOMAIN w |-> IF h \in hs THEN <<call>> \o w[h]
                                                   ELSE w[h]],
         threw |-> FALSE]

\* sendTranscriptUpdate(userId, transcript)
SendTranscriptUpdate(m, w, userId, transcript, n, throwers) ==
    IF MapHas(m, userId)
    THEN LET data == TranscriptJson(transcript)
         IN  ForEachWrite(m[userId], w, WriteCall(n, SSEFrame(data)), throwers)
    ELSE [writes |-> w, threw |-> FALSE]

\* ------------------------------------------------------------------ Init
NoTranscript == [text |-> "", timestamp |-> 0, isFinal |-> FALSE]

\* what session.layouts.showTextWall was last called with by a handler
NotShown == <<>>

\* `You said: ${data.text}`
YouSaid(text) == <<"You said: ", text>>

NoData == [text |-> "", isFinal |-> FALSE, now |-> 0]

NoOp == [op |-> "none", u |-> "", h |-> NoHandle, pre |-> <<>>,
         threw |-> FALSE, wasEnded |-> FALSE, transcript |-> NoTranscript,
         authed |-> FALSE, data |-> NoData, shown |-> NotShown,
         origin |-> Undefined]

\* the registry after construction
RegistryInit ==
    /\ sseConnections = <<>>
    /\ conn = [h \in Handles |-> "idle"]
    /\ userOf = [h \in Handles |-> Undefined]
    /\ ended = [h \in Handles |-> FALSE]
    /\ writes = [h \in Handles |-> <<>>]
    /\ sessions = [u \in Identities |-> 0]
    /\ nPublished = 0
    /\ last = NoOp
    /\ standalone = [sseConnections |-> <<>>,
                     writes |-> [h \in Handles |-> <<>>],
                     threw |-> FALSE]

\* the class-based server in development, its routes not looked at
NoEnv == [variant |-> "class", production |-> FALSE, bundle |-> FALSE]

RoutesIdle ==
    /\ env = NoEnv
    /\ routes = <<>>
    /\ pc = 0
    /\ served = <<>>

\* no token: useMentraAuth has nothing yet
NoToken == ""

\* eventSourceRef.current === null
NoSource == 0

MaxErrors == 2    \* stream errors in a run
MaxEffects == 2   \* runs of the effect with a token in a run

\* the EventSource objects a run can create: one per effect run and one
\* per retry
Sources == 1..(MaxErrors + MaxEffects)

\* the component before it is mounted
ClientInit ==
    /\ frontendToken = NoToken
    /\ mounted = FALSE
    /\ eventSourceRef = NoSource
    /\ readyState = [e \in Sources |-> "none"]
    /\ timers = {}
    /\ isConnected = FALSE
    /\ connectionError = ""
    /\ nErrors = 0
    /\ nEffects = 0
    /\ owner = [e \in Sources |-> "none"]
    /\ currentTranscript = ""
    /\ received = <<>>

ClientIdle == ClientInit /\ serverUp = TRUE

Init == RegistryInit /\ RoutesIdle /\ ClientIdle

\* a new request gets a fresh response object
FreshHandle == CHOOSE h \in Handles :
                  conn[h] = "idle" /\ \A g \in Handles : conn[g] = "idle" => h <= g

RECURSIVE Sum(_, _)
Sum(f, keys) ==
    IF keys = {} THEN 0
    ELSE LET k == CHOOSE x \in keys : TRUE IN f[k] + Sum(f, keys \ {k})

\* --------------------------------------------------------------- actions
\* GET /api/transcripts that also sends the new response the latest
\* transcript event
GetTranscriptsReplay(uid) ==
    /\ \E h \in Handles : conn[h] = "idle"
    /\ ~Falsy(uid)
    /\ LET res == FreshHandle
           ack == WriteCall(0, SSEFrame(ConnectedJson(uid)))
           old == WriteCall(nPublished, SSEFrame(TranscriptJson(last.transcript)))
       IN  /\ sseConnections' = Register(sseConnections, uid, res)
           /\ writes' = [writes EXCEPT ![res] =
                 IF nPublished > 0 THEN <<ack, old>> ELSE <<ack>>]
           /\ conn' = [conn EXCEPT ![res] = "open"]
           /\ userOf' = [userOf EXCEPT ![res] = uid]
           /\ last' = [NoOp EXCEPT !.op = "connect", !.u = uid, !.h = res,
                                   !.pre = sseConnections, !.authed = TRUE]
    /\ UNCHANGED <<ended, sessions, nPublished>>
    /\ UNCHANGED frontVars

\* GET /api/transcripts with req.authUserId = uid
GetTranscripts(uid) ==
    /\ \E h \in Handles : conn[h] = "idle"
    /\ LET res == FreshHandle IN
       /\ IF Falsy(uid)
          THEN \* 401: the response is finished and dropped
               /\ UNCHANGED <<sseConnections, writes, conn, userOf>>
               /\ last' = [NoOp EXCEPT !.op = "unauthorized",
                                       !.pre = sseConnections]
          ELSE /\ sseConnections' = Register(sseConnections, uid, res)
               /\ writes' = [writes EXCEPT ![res] =
                     Append(@, WriteCall(0, SSEFrame(ConnectedJson(uid))))]
               /\ conn' = [conn EXCEPT ![res] = "open"]
               /\ userOf' = [userOf EXCEPT ![res] = uid]
               /\ last' = [NoOp EXCEPT !.op = "connect", !.u = uid, !.h = res,
                                       !.pre = sseConnections,
                                       !.authed = TRUE]
    /\ UNCHANGED <<ended, sessions, nPublished>>
    /\ UNCHANGED frontVars

\* the client closes the stream or the network drops: the connection is
\* gone, the 'close' event of the request is still to be dispatched
ConnectionLost(h) ==
    /\ conn[h] = "open"
    /\ conn' = [conn EXCEPT ![h] = "dead"]
    /\ UNCHANGED <<sseConnections, userOf, ended, writes, sessions,
                   nPublished, last>>
    /\ UNCHANGED frontVars

\* the 'close' event of the request of h: the req.on('close') handler runs,
\* after which nothing of the program refers to the response any more
OnClose(h) ==
    /\ conn[h] = "dead"
    /\ sseConnections' = CloseHandler(sseConnections, userOf[h], h)
    /\ conn' = [conn EXCEPT ![h] = "idle"]
    /\ userOf' = [userOf EXCEPT ![h] = Undefined]
    /\ ended' = [ended EXCEPT ![h] = FALSE]
    /\ writes' = [writes EXCEPT ![h] = <<>>]
    /\ last' = [NoOp EXCEPT !.op = "close", !.u = userOf[h], !.h = h,
                            !.pre = sseConnections, !.wasEnded = ended[h]]
    /\ UNCHANGED <<sessions, nPublished>>
    /\ UNCHANGED frontVars

\* onSession(session, sessionId, userId)
OnSession(userId) ==
    /\ Sum(sessions, Identities) < MaxSessions
    /\ sessions' = [sessions EXCEPT ![userId] = @ + 1]
    /\ UNCHANGED <<sseConnections, conn, userOf, ended, writes, nPublished,
                   last>>
    /\ UNCHANGED frontVars

\* onTranscription that forwards final updates only
OnTranscriptionFinalOnly(userId, data, throwers) ==
    /\ sessions[userId] > 0
    /\ nPublished < MaxPublishes
    /\ throwers \subseteq {h \in Range(Snapshot(sseConnections, userId)) :
                              conn[h] = "dead"}
    /\ LET transcript == [text |-> data.text, timestamp |-> data.now,
                          isFinal |-> data.isFinal]
           r == IF data.isFinal
                THEN SendTranscriptUpdate(sseConnections, writes, userId,
                                          transcript, nPublished + 1, throwers)
                ELSE [writes |-> writes, threw |-> FALSE]
       IN  /\ writes' = r.writes
           /\ last' = [NoOp EXCEPT !.op = "publish", !.u = userId,
                                   !.pre = sseConnections, !.threw = r.threw,
                                   !.transcript = transcript, !.data = data,
                                   !.shown = IF ~r.threw /\ data.isFinal
                                             THEN YouSaid(data.text)
                                             ELSE NotShown]
    /\ nPublished' = nPublished + 1
    /\ UNCHANGED <<sseConnections, conn, userOf, ended, sessions>>
    /\ UNCHANGED frontVars

\* onTranscription whose publish unregisters the responses whose write
\* failed
OnTranscriptionReap(userId, data, throwers) ==
    /\ sessions[userId] > 0
    /\ nPublished < MaxPublishes
    /\ throwers \subseteq {h \in Range(Snapshot(sseConnections, userId)) :
                              conn[h] = "dead"}
    /\ LET transcript == [text |-> data.text, timestamp |-> data.now,
                          isFinal |-> data.isFinal]
           r == SendTranscriptUpdate(sseConnections, writes, userId,
                                     transcript, nPublished + 1, throwers)
           kept == SelectSeq(Snapshot(sseConnections, userId),
                             LAMBDA h : h \notin throwers)
       IN  /\ writes' = r.writes
           /\ sseConnections' =
                 IF throwers = {} THEN sseConnections
                 ELSE IF kept = <<>> THEN MapDelete(sseConnections, userId)
                 ELSE MapSet(sseConnections, userId, kept)
           /\ last' = [NoOp EXCEPT !.op = "publish", !.u = userId,
                                   !.pre = sseConnections, !.threw = r.threw,
                                   !.transcript = transcript, !.data = data]
    /\ nPublished' = nPublished + 1
    /\ UNCHANGED <<conn, userOf, ended, sessions>>
    /\ UNCHANGED frontVars

\* the session.events.onTranscription callback of a session of userId
OnTranscription(userId, data, throwers) ==
    /\ sessions[userId] > 0
    /\ nPublished < MaxPublishes
    /\ throwers \subseteq {h \in Range(Snapshot(sseConnections, userId)) :
                              conn[h] = "dead"}
    /\ LET transcript == [text |-> data.text, timestamp |-> data.now,
                          isFinal |-> data.isFinal]
           r == SendTranscriptUpdate(sseConnections, writes, userId,
                                     transcript, nPublished + 1, throwers)
       IN  /\ writes' = r.writes
           /\ last' = [NoOp EXCEPT !.op = "publish", !.u = userId,
                                   !.pre = sseConnections, !.threw = r.threw,
                                   !.transcript = transcript, !.data = data,
                                   !.shown = IF ~r.threw /\ data.isFinal
                                             THEN YouSaid(data.text)
                                             ELSE NotShown]
    /\ nPublished' = nPublished + 1
    /\ UNCHANGED <<sseConnections, conn, userOf, ended, sessions>>
    /\ UNCHANGED frontVars

\* onDisconnected that deletes the entry without calling res.end()
OnDisconnectedNoEnd(userId) ==
    /\ sessions[userId] > 0
    /\ sessions' = [sessions EXCEPT ![userId] = @ - 1]
    /\ sseConnections' = CloseAll(sseConnections, userId)
    /\ last' = [NoOp EXCEPT !.op = "closeAll", !.u = userId,
                            !.pre = sseConnections]
    /\ UNCHANGED <<conn, ended, userOf, writes, nPublished>>
    /\ UNCHANGED frontVars

\* the session.events.onDisconnected callback of a session of userId
OnDisconnected(userId) ==
    /\ sessions[userId] > 0
    /\ sessions' = [sessions EXCEPT ![userId] = @ - 1]
    /\ LET connections == Snapshot(sseConnections, userId)
       IN  /\ ended' = [h \in Handles |->
                           IF h \in Range(connections) THEN TRUE ELSE ended[h]]
           /\ conn' = [h \in Handles |->
                           IF h \in Range(connections) /\ conn[h] = "open"
                           THEN "dead" ELSE conn[h]]
           /\ sseConnections' = CloseAll(sseConnections, userId)
           /\ last' = [NoOp EXCEPT !.op = "closeAll", !.u = userId,
                                   !.pre = sseConnections]
    /\ UNCHANGED <<userOf, writes, nPublished>>
    /\ UNCHANGED frontVars

Next ==
    \/ \E uid \in AuthUserIds : GetTranscripts(uid)
    \/ \E h \in Handles : ConnectionLost(h)
    \/ \E h \in Handles : OnClose(h)
    \/ \E u \in Identities : OnSession(u)
    \/ \E u \in Identities, data \in Updates, throwers \in SUBSET Handles :
          OnTranscription(u, data, throwers)
    \/ \E u \in Identities : OnDisconnected(u)

Spec == Init /\ [][Next]_vars

TypeOK ==
    /\ DOMAIN sseConnections \subseteq Identities
    /\ \A u \in DOMAIN sseConnections : Range(sseConnections[u]) \subseteq Handles
    /\ conn \in [Handles -> {"idle", "open", "dead"}]
    /\ ended \in [Handles -> BOOLEAN]
    /\ sessions \in [Identities -> 0..MaxSessions]
    /\ nPublished \in 0..MaxPublishes

\* ------------------------------------------------ overlapping sessions
\* the platform may start a session of a user before it has reported the
\* end of the user's earlier one
MaxOverlap == 2   \* sessions active at the same time

\* onSession(session, sessionId, userId), sessions of one user overlapping
OnSessionOverlap(userId) ==
    /\ Sum(sessions, Identities) < MaxOverlap
    /\ sessions' = [sessions EXCEPT ![userId] = @ + 1]
    /\ UNCHANGED <<sseConnections, conn, userOf, ended, writes, nPublished,
                   last>>
    /\ UNCHANGED frontVars

NextOverlap ==
    \/ \E uid \in AuthUserIds : GetTranscripts(uid)
    \/ \E h \in Handles : ConnectionLost(h)
    \/ \E h \in Handles : OnClose(h)
    \/ \E u \in Identities : OnSessionOverlap(u)
    \/ \E u \in Identities, data \in Updates, throwers \in SUBSET Handles :
          OnTranscription(u, data, throwers)
    \/ \E u \in Identities : OnDisconnected(u)

SpecOverlap == Init /\ [][NextOverlap]_vars

\* ------------------------------------------- the standalone server
\* src/unnamed/part_003: module-level sseConnections, no sessions; the
\* recipient is named by the query string and broadcastTranscript is exported
Anonymous == "anonymous"

\* the values req.query.userId and req.query.token can have
QueryValues == Identities \cup {Undefined, ""}

\* a || b
OrElse(a, b) == IF Falsy(a) THEN b ELSE a

\* String(x)
StringOf(x) == IF x = Undefined THEN "undefined" ELSE x

\* String(req.query.userId || req.query.token || 'anonymous')
StandaloneUserId(qUserId, qToken) ==
    StringOf(OrElse(OrElse(qUserId, qToken), Anonymous))

\* a close handler of the standalone server that leaves the emptied array
\* in the map
CloseHandlerStandaloneKeepEmpty(m, userId, res) ==
    LET conns == IF MapHas(m, userId) THEN m[userId] ELSE <<>>
        idx == IndexOf(conns, res)
        after == IF idx # 0 THEN Splice1(conns, idx) ELSE conns
    IN  IF MapHas(m, userId) THEN MapSet(m, userId, after) ELSE m

\* the body of the req.on('close') handler of the standalone server
CloseHandlerStandalone(m, userId, res) ==
    LET conns == IF MapHas(m, userId) THEN m[userId] ELSE <<>>
        idx == IndexOf(conns, res)
        after == IF idx # 0 THEN Splice1(conns, idx) ELSE conns
    IN  IF Len(after) = 0 THEN MapDelete(m, userId)
        ELSE MapSet(m, userId, after)

\* broadcastTranscript(userId, transcript)
BroadcastTranscriptWrites(m, w, userId, transcript, n, throwers) ==
    LET conns == IF MapHas(m, userId) THEN m[userId] ELSE <<>>
        payload == TranscriptJson(transcript)
    IN  ForEachWrite(conns, w, WriteCall(n, SSEFrame(payload)), throwers)

\* GET /api/transcripts of the standalone server.  The handler calls
\* res.setHeader after res.writeHead: a runtime that refuses this
\* (ERR_HTTP_HEADERS_SENT) aborts the handler before it registers anything,
\* a runtime that keeps the headers until the first write lets it go on.
GetTranscriptsStandalone(qUserId, qToken, setHeaderThrows) ==
    /\ \E h \in Handles : conn[h] = "idle"
    /\ LET res == FreshHandle
           userId == StandaloneUserId(qUserId, qToken)
       IN  IF setHeaderThrows
           THEN /\ last' = [NoOp EXCEPT !.op = "error", !.u = userId,
                                        !.pre = sseConnections,
                                        !.authed = ~(Falsy(qUserId) /\ Falsy(qToken))]
                /\ UNCHANGED <<sseConnections, writes, conn, userOf>>
           ELSE
           /\ sseConnections' = Register(sseConnections, userId, res)
           /\ writes' = [writes EXCEPT ![res] =
                 Append(@, WriteCall(0, SSEFrame(ConnectedJson(userId))))]
           /\ conn' = [conn EXCEPT ![res] = "open"]
           /\ userOf' = [userOf EXCEPT ![res] = userId]
           /\ last' = [NoOp EXCEPT !.op = "connect", !.u = userId, !.h = res,
                                   !.pre = sseConnections,
                                   !.authed = ~(Falsy(qUserId) /\ Falsy(qToken))]
    /\ UNCHANGED <<ended, sessions, nPublished>>
    /\ UNCHANGED frontVars

\* the 'close' event of the request of h on the standalone server
OnCloseStandalone(h) ==
    /\ conn[h] = "dead"
    /\ sseConnections' = CloseHandlerStandalone(sseConnections, userOf[h], h)
    /\ conn' = [conn EXCEPT ![h] = "idle"]
    /\ userOf' = [userOf EXCEPT ![h] = Undefined]
    /\ ended' = [ended EXCEPT ![h] = FALSE]
    /\ writes' = [writes EXCEPT ![h] = <<>>]
    /\ last' = [NoOp EXCEPT !.op = "close", !.u = userOf[h], !.h = h,
                            !.pre = sseConnections]
    /\ UNCHANGED <<sessions, nPublished>>
    /\ UNCHANGED frontVars

\* a call of the exported broadcastTranscript
BroadcastTranscript(userId, data, throwers) ==
    /\ nPublished < MaxPublishes
    /\ throwers \subseteq {h \in Range(Snapshot(sseConnections, userId)) :
                              conn[h] = "dead"}
    /\ LET transcript == [text |-> data.text, timestamp |-> data.now,
                          isFinal |-> data.isFinal]
           r == BroadcastTranscriptWrites(sseConnections, writes, userId,
                                          transcript, nPublished + 1, throwers)
       IN  /\ writes' = r.writes
           /\ last' = [NoOp EXCEPT !.op = "publish", !.u = userId,
                                   !.pre = sseConnections, !.threw = r.threw,
                                   !.transcript = transcript, !.data = data]
    /\ nPublished' = nPublished + 1
    /\ UNCHANGED <<sseConnections, conn, userOf, ended, sessions>>
    /\ UNCHANGED frontVars

NextStandalone ==
    \/ \E qUserId \in QueryValues, qToken \in QueryValues,
          setHeaderThrows \in BOOLEAN :
          GetTranscriptsStandalone(qUserId, qToken, setHeaderThrows)
    \/ \E h \in Handles : ConnectionLost(h)
    \/ \E h \in Handles : OnCloseStandalone(h)
    \/ \E u \in Identities \cup {Anonymous}, data \in Updates,
          throwers \in SUBSET Handles : BroadcastTranscript(u, data, throwers)

SpecStandalone == Init /\ [][NextStandalone]_vars

\* ------------------------------------- the two servers side by side
\* Both servers are given the same events: a request of the same identity
\* that each answers with a response of the same number, the 'close' of
\* that request, and a publish of the same transcript, the same writes
\* failing on both.

\* a client of userId connects to both servers
RegisterBoth(userId) ==
    /\ \E h \in Handles : conn[h] = "idle"
    /\ LET res == FreshHandle
           ack == WriteCall(0, SSEFrame(ConnectedJson(userId)))
       IN  /\ sseConnections' = Register(sseConnections, userId, res)
           /\ writes' = [writes EXCEPT ![res] = Append(@, ack)]
           /\ standalone' =
                 [sseConnections |->
                      Register(standalone.sseConnections, userId, res),
                  writes |-> [standalone.writes EXCEPT ![res] = Append(@, ack)],
                  threw |-> FALSE]
           /\ conn' = [conn EXCEPT ![res] = "open"]
           /\ userOf' = [userOf EXCEPT ![res] = userId]
           /\ last' = [NoOp EXCEPT !.op = "connect", !.u = userId, !.h = res,
                                   !.pre = sseConnections, !.authed = TRUE]
    /\ UNCHANGED <<ended, sessions, nPublished>>
    /\ UNCHANGED <<routeVars, clientVars>>

\* the 'close' event of the requests of h is dispatched on both servers
CloseBoth(h) ==
    /\ conn[h] = "dead"
    /\ sseConnections' = CloseHandler(sseConnections, userOf[h], h)
    /\ writes' = [writes EXCEPT ![h] = <<>>]
    /\ standalone' =
          [sseConnections |->
               CloseHandlerStandalone(standalone.sseConnections, userOf[h], h),
           writes |-> [standalone.writes EXCEPT ![h] = <<>>],
           threw |-> FALSE]
    /\ conn' = [conn EXCEPT ![h] = "idle"]
    /\ userOf' = [userOf EXCEPT ![h] = Undefined]
    /\ last' = [NoOp EXCEPT !.op = "close", !.u = userOf[h], !.h = h,
                            !.pre = sseConnections]
    /\ UNCHANGED <<ended, sessions, nPublished>>
    /\ UNCHANGED <<routeVars, clientVars>>

\* sendTranscriptUpdate(userId, transcript) on the class-based server and
\* broadcastTranscript(userId, transcript) on the standalone one
PublishBoth(userId, data, throwers) ==
    /\ nPublished < MaxPublishes
    /\ throwers \subseteq {h \in Handles : conn[h] = "dead"}
    /\ LET transcript == [text |-> data.text, timestamp |-> data.now,
                          isFinal |-> data.isFinal]
           r == SendTranscriptUpdate(sseConnections, writes, userId,
                                     transcript, nPublished + 1, throwers)
           b == BroadcastTranscriptWrites(standalone.sseConnections,
                                          standalone.writes, userId,
                                          transcript, nPublished + 1, throwers)
       IN  /\ writes' = r.writes
           /\ standalone' = [sseConnections |-> standalone.sseConnections,
                             writes |-> b.writes, threw |-> b.threw]
           /\ last' = [NoOp EXCEPT !.op = "publish", !.u = userId,
                                   !.pre = sseConnections, !.threw = r.threw,
                                   !.transcript = transcript, !.data = data]
    /\ nPublished' = nPublished + 1
    /\ UNCHANGED <<sseConnections, conn, userOf, ended, sessions>>
    /\ UNCHANGED <<routeVars, clientVars>>

NextBoth ==
    \/ \E u \in Identities : RegisterBoth(u)
    \/ \E h \in Handles : ConnectionLost(h)
    \/ \E h \in Handles : CloseBoth(h)
    \/ \E u \in Identities, data \in Updates, throwers \in SUBSET Handles :
          PublishBoth(u, data, throwers)

SpecBoth == Init /\ [][NextBoth]_vars

\* ------------------------------------------------------ route dispatch
MaxRequests == 2   \* requests dispatched in a run

\* the paths a browser asks for
Paths == {"/", "/api/transcripts", "/api/health", "/assets/app.js", "/about"}

\* the files of dist/frontend when the frontend has been built
BundleFiles == {"/index.html", "/assets/app.js"}

\* the server files, with process.env.NODE_ENV === 'production' and
\* existsSync(dist/frontend)
Envs == [variant : {"class", "standalone"}, production : BOOLEAN,
         bundle : BOOLEAN]

\* app.use(fn) and app.get(path, fn) as entries of the router stack
UseAll(handler) == [method |-> "use", path |-> "*", handler |-> handler]
Get(path, handler) == [method |-> "get", path |-> path, handler |-> handler]

\* setupRoutes of ExampleReactApp, in statement order
ClassRoutes(e) ==
    (IF e.production THEN <<UseAll("static")>> ELSE <<>>)
    \o <<Get("/", "root"),
         Get("/api/transcripts", "transcripts"),
         Get("/api/health", "health")>>
    \o (IF e.production THEN <<Get("*", "spa")>> ELSE <<>>)

\* the route registrations of the standalone server, in statement order
StandaloneRoutes(e) ==
    (IF e.bundle THEN <<UseAll("static"), Get("*", "spa")>> ELSE <<>>)
    \o <<Get("/api/health", "health"),
         Get("/api/transcripts", "transcripts")>>

SetupProgram(e) ==
    IF e.variant = "class" THEN ClassRoutes(e) ELSE StandaloneRoutes(e)

\* the layer's path matches the request
Matches(r, path) == r.path = "*" \/ r.path = path

\* the layer answers the request; express.static answers only when the
\* file exists (index.html for the directory) and calls next() otherwise
Answers(r, path, e) ==
    IF r.handler = "static"
    THEN e.bundle /\ (path \in BundleFiles \/ path = "/")
    ELSE TRUE

\* the router walks the stack in registration order: the first layer that
\* matches and answers handles the request, and none is a 404
RECURSIVE Dispatch(_, _, _)
Dispatch(rs, path, e) ==
    IF rs = <<>> THEN "notFound"
    ELSE IF Matches(Head(rs), path) /\ Answers(Head(rs), path, e)
         THEN Head(rs).handler
         ELSE Dispatch(Tail(rs), path, e)

InitRoutes ==
    /\ RegistryInit
    /\ ClientIdle
    /\ env \in Envs
    /\ routes = <<>>
    /\ pc = 1
    /\ served = <<>>

\* the next app.use / app.get statement of the setup
SetupStep ==
    /\ pc \in 1..Len(SetupProgram(env))
    /\ routes' = Append(routes, SetupProgram(env)[pc])
    /\ pc' = pc + 1
    /\ UNCHANGED <<env, served, registryVars, clientVars,
                   standalone>>

\* a GET request arrives once the server listens
Request(path) ==
    /\ pc > Len(SetupProgram(env))
    /\ Len(served) < MaxRequests
    /\ served' = Append(served, [path |-> path,
                                 by |-> Dispatch(routes, path, env)])
    /\ UNCHANGED <<env, routes, pc, registryVars, clientVars,
                   standalone>>

NextRoutes ==
    \/ SetupStep
    \/ \E path \in Paths : Request(path)

SpecRoutes == InitRoutes /\ [][NextRoutes]_vars

\* --------------------------------------- the separate-server backend
\* ALLOWED_ORIGINS when the environment gives none
AllowedOrigins == {"http://localhost:5173", "http://localhost:3000"}

\* req.headers.origin: undefined when the request has no Origin header, ""
\* for an Origin header without a value
Origins == {Undefined, "", "http://localhost:5173", "https://evil.example"}

\* an origin function that lets every origin through
CorsOriginAllowAll(origin) == TRUE

\* an origin function that turns away requests without an Origin
CorsOriginStrict(origin) == origin \in AllowedOrigins

\* the origin function given to cors(): TRUE for callback(null, true),
\* FALSE for callback(new Error('Not allowed by CORS'), false)
CorsOrigin(origin) ==
    IF Falsy(origin) THEN TRUE
    ELSE IF origin \in AllowedOrigins THEN TRUE
    ELSE FALSE

\* GET /api/transcripts of the separate-server backend with Origin header
\* origin and req.authUserId = uid.  The cors middleware, registered by
\* setupCors before the routes, passes the error of the origin function to
\* next(), so that no route runs; otherwise the route handler runs.
GetTranscriptsCors(origin, uid) ==
    /\ \E h \in Handles : conn[h] = "idle"
    /\ LET res == FreshHandle IN
       IF ~CorsOrigin(origin)
       THEN /\ UNCHANGED <<sseConnections, writes, conn, userOf>>
            /\ last' = [NoOp EXCEPT !.op = "corsError", !.origin = origin,
                                    !.pre = sseConnections]
       ELSE IF Falsy(uid)
       THEN /\ UNCHANGED <<sseConnections, writes, conn, userOf>>
            /\ last' = [NoOp EXCEPT !.op = "unauthorized", !.origin = origin,
                                    !.pre = sseConnections]
       ELSE /\ sseConnections' = Register(sseConnections, uid, res)
            /\ writes' = [writes EXCEPT ![res] =
                  Append(@, WriteCall(0, SSEFrame(ConnectedJson(uid))))]
            /\ conn' = [conn EXCEPT ![res] = "open"]
            /\ userOf' = [userOf EXCEPT ![res] = uid]
            /\ last' = [NoOp EXCEPT !.op = "connect", !.u = uid, !.h = res,
                                    !.origin = origin,
                                    !.pre = sseConnections, !.authed = TRUE]
    /\ UNCHANGED <<ended, sessions, nPublished>>
    /\ UNCHANGED frontVars

NextCors ==
    \/ \E origin \in Origins, uid \in AuthUserIds :
          GetTranscriptsCors(origin, uid)
    \/ \E h \in Handles : ConnectionLost(h)
    \/ \E h \in Handles : OnClose(h)

SpecCors == Init /\ [][NextCors]_vars

\* ------------------------------------------- the TranscriptDisplay client
\* the tokens useMentraAuth can give
Tokens == {"t1", "t2"}

\* 'Connection to transcript stream lost. Retrying...'
LostRetrying == "Connection to transcript stream lost. Retrying..."

\* new EventSource(url): the next object
FreshSource(rs) == CHOOSE e \in Sources :
                      rs[e] = "none" /\ \A f \in Sources : rs[f] = "none" => e <= f

\* the cleanup the effect returned: close the current EventSource, if any,
\* and clear the ref
CleanupStates(rs, ref) ==
    IF ref # NoSource THEN [rs EXCEPT ![ref] = "closed"] ELSE rs

\* the effect of [frontendToken]: React runs the cleanup of the previous
\* run, if that run returned one, and then the effect with the new token
EffectRun(token) ==
    /\ ~mounted \/ token # frontendToken
    /\ token # NoToken => nEffects < MaxEffects
    /\ LET hadCleanup == mounted /\ frontendToken # NoToken
           rs1 == IF hadCleanup THEN CleanupStates(readyState, eventSourceRef)
                  ELSE readyState
           ref1 == IF hadCleanup THEN NoSource ELSE eventSourceRef
       IN  IF token = NoToken
           THEN /\ readyState' = rs1
                /\ eventSourceRef' = ref1
                /\ nEffects' = nEffects
           ELSE /\ readyState' = [rs1 EXCEPT ![FreshSource(rs1)] = "connecting"]
                /\ eventSourceRef' = FreshSource(rs1)
                /\ nEffects' = nEffects + 1
    /\ mounted' = TRUE
    /\ frontendToken' = token
    /\ isConnected' = (mounted /\ isConnected)
    /\ connectionError' = IF mounted THEN connectionError ELSE ""
    /\ currentTranscript' = IF mounted THEN currentTranscript ELSE ""
    /\ received' = IF mounted THEN received ELSE <<>>
    /\ owner' = [e \in Sources |->
                  IF token # NoToken /\ e = eventSourceRef' THEN "live"
                  ELSE IF owner[e] = "live" THEN "cleaned"
                  ELSE owner[e]]
    /\ UNCHANGED <<timers, serverUp, nErrors, registryVars, routeVars, standalone>>

\* the component unmounts: the cleanup runs and the state is gone
Unmount ==
    /\ mounted
    /\ readyState' = IF frontendToken # NoToken
                     THEN CleanupStates(readyState, eventSourceRef)
                     ELSE readyState
    /\ eventSourceRef' = IF frontendToken # NoToken THEN NoSource
                         ELSE eventSourceRef
    /\ mounted' = FALSE
    /\ isConnected' = FALSE
    /\ connectionError' = ""
    /\ currentTranscript' = ""
    /\ received' = <<>>
    /\ owner' = [e \in Sources |->
                  IF owner[e] = "none" THEN "none" ELSE "gone"]
    /\ UNCHANGED <<frontendToken, timers, serverUp, nErrors, nEffects,
                   registryVars, routeVars, standalone>>

\* the browser has the stream of e established: eventSource.onopen.  The
\* setters of a component that has unmounted change nothing.
Open(e) ==
    /\ readyState[e] = "connecting"
    /\ serverUp
    /\ readyState' = [readyState EXCEPT ![e] = "open"]
    /\ isConnected' = (owner[e] # "gone" \/ isConnected)
    /\ connectionError' = IF owner[e] # "gone" THEN "" ELSE connectionError
    /\ UNCHANGED <<frontendToken, mounted, eventSourceRef, timers, serverUp,
                   nErrors, nEffects, owner, currentTranscript, received,
                   registryVars, routeVars, standalone>>

\* the stream of e fails: eventSource.onerror.  A failed attempt happens
\* while the backend does not accept connections; the browser gives up on
\* e (fatal) or re-establishes the stream by itself.
StreamError(e, fatal) ==
    /\ nErrors < MaxErrors
    /\ readyState[e] \in {"connecting", "open"}
    /\ readyState[e] = "connecting" => ~serverUp
    /\ fatal => readyState[e] = "connecting"
    /\ readyState' = [readyState EXCEPT
                        ![e] = IF fatal THEN "closed" ELSE "connecting"]
    /\ isConnected' = (owner[e] = "gone" /\ isConnected)
    /\ connectionError' = IF owner[e] # "gone" THEN LostRetrying
                          ELSE connectionError
    /\ timers' = timers \cup {e}
    /\ nErrors' = nErrors + 1
    /\ UNCHANGED <<frontendToken, mounted, eventSourceRef, serverUp, nEffects,
                   owner, currentTranscript, received, registryVars,
                   routeVars, standalone>>

\* a timeout callback that never reconnects
TimerFiresNoRetry(e) ==
    /\ e \in timers
    /\ timers' = timers \ {e}
    /\ UNCHANGED <<readyState, eventSourceRef, owner>>
    /\ UNCHANGED <<frontendToken, mounted, isConnected, connectionError,
                   serverUp, nErrors, nEffects, currentTranscript, received,
                   registryVars, routeVars, standalone>>

\* the setTimeout callback of an onerror of e runs, 3000 ms later
TimerFires(e) ==
    /\ e \in timers
    /\ timers' = timers \ {e}
    /\ IF eventSourceRef = e
       THEN /\ readyState' = [readyState EXCEPT
                                ![FreshSource(readyState)] = "connecting"]
            /\ eventSourceRef' = FreshSource(readyState)
            /\ owner' = [owner EXCEPT ![FreshSource(readyState)] = "live"]
       ELSE UNCHANGED <<readyState, eventSourceRef, owner>>
    /\ UNCHANGED <<frontendToken, mounted, isConnected, connectionError,
                   serverUp, nErrors, nEffects, currentTranscript, received,
                   registryVars, routeVars, standalone>>

\* the backend starts or stops accepting connections
ServerToggle ==
    /\ serverUp' = ~serverUp
    /\ UNCHANGED <<frontendToken, mounted, eventSourceRef, readyState, timers,
                   isConnected, connectionError, nErrors, nEffects, owner,
                   currentTranscript, received, registryVars, routeVars, standalone>>

InitClient ==
    /\ RegistryInit
    /\ RoutesIdle
    /\ ClientInit
    /\ serverUp \in BOOLEAN

NextClient ==
    \/ \E token \in Tokens \cup {NoToken} : EffectRun(token)
    \/ Unmount
    \/ \E e \in Sources : Open(e)
    \/ \E e \in Sources, fatal \in BOOLEAN : StreamError(e, fatal)
    \/ \E e \in Sources : TimerFires(e)
    \/ ServerToggle

SpecClient == InitClient /\ [][NextClient]_vars

\* timeouts run, and the browser completes a connection attempt that the
\* backend accepts
SpecClientFair ==
    /\ SpecClient
    /\ \A e \in Sources : WF_vars(TimerFires(e))
    /\ \A e \in Sources : WF_vars(Open(e))

\* ------------------------------------------------- the client's messages
MaxMessages == 2   \* messages handed to a mounted component

\* event.data that is not JSON, and the JSON text null
NotJson == [garbage |-> TRUE]
JsonNull == [null |-> TRUE]

\* the event.data of the messages a stream can carry: what the server
\* writes, a transcript without text, and data of other kinds
EventDatas ==
    {TranscriptJson([text |-> d.text, timestamp |-> d.now,
                     isFinal |-> d.isFinal]) : d \in Updates}
    \cup {ConnectedJson("alice"), [type |-> "transcript"], NotJson, JsonNull}

\* JSON.parse(event.data): the value, or a SyntaxError
JsonParse(data) == [threw |-> "garbage" \in DOMAIN data, value |-> data]

\* message.f: undefined when the object has no such property
Field(message, f) == IF f \in DOMAIN message THEN message[f] ELSE Undefined

\* an onmessage that shows the text of a 'transcript' message only when it
\* has one
OnMessageKeepsText(cur, data) ==
    LET p == JsonParse(data) IN
    IF p.threw \/ p.value = JsonNull THEN cur
    ELSE IF Field(p.value, "type") = "transcript"
              /\ ~Falsy(Field(p.value, "text"))
         THEN Field(p.value, "text")
         ELSE cur

\* an onmessage that clears the transcript on a 'connected' message
OnMessageClearsOnConnected(cur, data) ==
    LET p == JsonParse(data) IN
    IF p.threw \/ p.value = JsonNull THEN cur
    ELSE IF Field(p.value, "type") = "connected" THEN ""
    ELSE IF Field(p.value, "type") = "transcript"
         THEN OrElse(Field(p.value, "text"), "")
         ELSE cur

\* the body of eventSource.onmessage: the value currentTranscript has after
\* it, cur being the value before.  Reading message.type of null throws a
\* TypeError, which the same catch takes.
OnMessage(cur, data) ==
    LET p == JsonParse(data) IN
    IF p.threw \/ p.value = JsonNull THEN cur
    ELSE IF Field(p.value, "type") = "connected" THEN cur
    ELSE IF Field(p.value, "type") = "transcript"
         THEN OrElse(Field(p.value, "text"), "")
         ELSE cur

\* a message arrives on the open stream of e: eventSource.onmessage.  The
\* setter of a component that has unmounted changes nothing.
Message(e, data) ==
    /\ readyState[e] = "open"
    /\ owner[e] # "gone" => Len(received) < MaxMessages
    /\ currentTranscript' = IF owner[e] # "gone"
                            THEN OnMessage(currentTranscript, data)
                            ELSE currentTranscript
    /\ received' = IF owner[e] # "gone" THEN Append(received, data)
                   ELSE received
    /\ UNCHANGED <<frontendToken, mounted, eventSourceRef, readyState, timers,
                   isConnected, connectionError, serverUp, nErrors, nEffects,
                   owner, registryVars, routeVars, standalone>>

\* the component before it is mounted, the backend accepting connections
InitMessages ==
    /\ RegistryInit
    /\ RoutesIdle
    /\ ClientIdle

\* messages come while the backend is up: the streams open, break and are
\* retried, and the open ones carry messages
NextMessages ==
    \/ \E token \in Tokens \cup {NoToken} : EffectRun(token)
    \/ Unmount
    \/ \E e \in Sources : Open(e)
    \/ \E e \in Sources, fatal \in BOOLEAN : StreamError(e, fatal)
    \/ \E e \in Sources : TimerFires(e)
    \/ \E e \in Sources, data \in EventDatas : Message(e, data)

SpecMessages == InitMessages /\ [][NextMessages]_vars

\* ---------------------------------------------------------------- claims
\* the publish the last handler made, and the write call it issues
LastN == nPublished
LastCall == WriteCall(LastN, SSEFrame(TranscriptJson(last.transcript)))

\* the indices of the write calls on h that belong to publish n
CallsOf(h, n) == {i \in DOMAIN writes[h] : writes[h][i].seq = n}

\* the handles an identity had before the last handler ran
PreHandles(u) == Range(Snapshot(last.pre, u))

\* every handle the registry holds, under any identity
Registered(m) == UNION {Range(m[u]) : u \in DOMAIN m}

\* m with exactly res taken out of userId's collection, the order of the
\* others kept, and the entry dropped when nothing is left
RemoveExact(m, userId, res) ==
    IF ~MapHas(m, userId) THEN m
    ELSE LET rest == SelectSeq(m[userId], LAMBDA x : x # res)
         IN  IF rest = <<>> THEN MapDelete(m, userId)
             ELSE MapSet(m, userId, rest)

\* C1 (fan-out): a publish for u issues exactly one write call, carrying the
\* one serialized frame of the event, to every handle registered for u, and
\* the write calls on every handle are in the order of the publishes.
FanOut ==
    /\ last.op = "publish" =>
          \A h \in PreHandles(last.u) :
              /\ Cardinality(CallsOf(h, LastN)) = 1
              /\ writes[h][Len(writes[h])] = LastCall
    /\ \A h \in Handles : \A i, j \in DOMAIN writes[h] :
          i < j => writes[h][i].seq < writes[h][j].seq

\* C2 (isolation): a publish for u issues no write call to a handle of
\* another identity and leaves the entry of every other identity as it was.
Isolation ==
    last.op = "publish" =>
       /\ \A h \in Handles : userOf[h] # last.u => CallsOf(h, LastN) = {}
       /\ \A v \in Identities \ {last.u} :
             /\ MapHas(sseConnections, v) = MapHas(last.pre, v)
             /\ Snapshot(sseConnections, v) = Snapshot(last.pre, v)

IsolationWitness ==
    /\ last.op = "publish"
    /\ PreHandles(last.u) # {}
    /\ \E v \in Identities \ {last.u} : PreHandles(v) # {}

\* C3 (dead-handle tolerance): when a write of a publish for u fails, every
\* handle registered for u has still been issued the write call of the event.
DeadHandleTolerance ==
    (last.op = "publish" /\ last.threw) =>
        \A h \in PreHandles(last.u) : CallsOf(h, LastN) # {}

\* C4: sendTranscriptUpdate, and so the onTranscription callback, returns
\* normally from every publish: no exception reaches the event producer.
PublishNeverThrows == last.op = "publish" => ~last.threw

\* C5 (unregister exactly once): a handle stays registered until its
\* connection terminates; once the close handler has run the handle is in
\* no collection; the close handler of a handle that is still registered
\* removes exactly that handle, and the close handler of a handle that the
\* session disconnect removed already changes nothing.
UnregisterExactlyOnce ==
    /\ \A h \in Handles :
          /\ (conn[h] \in {"open", "dead"} /\ ~ended[h]) =>
                 h \in Range(Snapshot(sseConnections, userOf[h]))
          /\ conn[h] = "idle" =>
                 h \notin Registered(sseConnections) /\ writes[h] = <<>>
    /\ last.op = "close" =>
          IF last.wasEnded
          THEN /\ last.h \notin Registered(last.pre)
               /\ sseConnections = last.pre
          ELSE /\ last.h \in PreHandles(last.u)
               /\ last.h \notin Registered(sseConnections)
               /\ Registered(sseConnections) = Registered(last.pre) \ {last.h}

UnregisterExactlyOnceWitness ==
    /\ last.op = "close"
    /\ last.wasEnded
    /\ MapHas(sseConnections, last.u)

\* C6 (registry invariant): every key of sseConnections maps to a non-empty
\* collection.
NoEmptyEntry ==
    \A u \in DOMAIN sseConnections : Len(sseConnections[u]) > 0

NoEmptyEntryWitness ==
    /\ last.op = "close"
    /\ Len(Snapshot(last.pre, last.u)) = 1
    /\ ~MapHas(sseConnections, last.u)
    /\ \E v \in Identities : MapHas(sseConnections, v)

\* C7 (cleanup): after the close handler of the only handle of u, the lookup
\* for u yields no handle and u is not a key of the registry.
Cleanup ==
    (last.op = "close" /\ Snapshot(last.pre, last.u) = <<last.h>>) =>
        /\ Snapshot(sseConnections, last.u) = <<>>
        /\ last.u \notin DOMAIN sseConnections

CleanupWitness ==
    /\ last.op = "close"
    /\ Snapshot(last.pre, last.u) = <<last.h>>
    /\ ~last.wasEnded

\* C8 (idempotent unregister): in every reachable registry, running the
\* close handler of (u, h) twice gives the registry that running it once
\* gives, and one run takes out h only: the other handles of u keep their
\* order and the entries of the other identities are untouched.
IdempotentUnregister ==
    \A u \in Identities, h \in Handles :
        LET once == CloseHandler(sseConnections, u, h)
            twice == CloseHandler(once, u, h)
        IN  /\ twice = once
            /\ once = RemoveExact(sseConnections, u, h)
            /\ \A v \in Identities \ {u} :
                  /\ MapHas(once, v) = MapHas(sseConnections, v)
                  /\ Snapshot(once, v) = Snapshot(sseConnections, v)

IdempotentUnregisterWitness ==
    /\ last.op = "close"
    /\ last.h \in PreHandles(last.u)
    /\ MapHas(sseConnections, last.u)
    /\ CloseHandler(sseConnections, last.u, last.h) = sseConnections

\* C9 (exact-handle removal): a close handler takes exactly its own handle
\* out of the registry, and a publish issues write calls only to handles
\* the registry holds for the identity, the first of them included.
ExactHandleRemoval ==
    /\ last.op = "close" =>
          sseConnections = RemoveExact(last.pre, last.u, last.h)
    /\ last.op = "publish" =>
          /\ \A h \in Handles :
                CallsOf(h, LastN) # {} => h \in PreHandles(last.u)
          /\ PreHandles(last.u) # {} =>
                CallsOf(Head(Snapshot(last.pre, last.u)), LastN) # {}

\* the first of two handles of one identity closes
ExactHandleRemovalWitness ==
    /\ last.op = "close"
    /\ Len(Snapshot(last.pre, last.u)) = 2
    /\ last.h = Head(Snapshot(last.pre, last.u))
    /\ Snapshot(sseConnections, last.u) = Tail(Snapshot(last.pre, last.u))

\* C10 (closeAll): the session disconnect of u ends every handle registered
\* for u and removes u's entry; the close handler of a handle ended that
\* way changes nothing, whatever was registered since.
CloseAllEndsAndClears ==
    /\ last.op = "closeAll" =>
          /\ \A h \in PreHandles(last.u) : ended[h]
          /\ ~MapHas(sseConnections, last.u)
          /\ \A v \in Identities \ {last.u} :
                Snapshot(sseConnections, v) = Snapshot(last.pre, v)
    /\ \A h \in Handles :
          ended[h] => CloseHandler(sseConnections, userOf[h], h) = sseConnections
    /\ (last.op = "close" /\ last.wasEnded) => sseConnections = last.pre

CloseAllEndsAndClearsWitness ==
    /\ last.op = "close"
    /\ last.wasEnded
    /\ \E g \in Handles : g # last.h /\ ended[g] /\ userOf[g] = last.u

\* C11 (session-end signal): when a session of u reports its end, u's entry
\* is gone and every response that was open for u has been ended, so none
\* of u's streams is left open.
SessionEndClosesAll ==
    last.op = "closeAll" =>
        /\ ~MapHas(sseConnections, last.u)
        /\ \A h \in Handles :
              (userOf[h] = last.u /\ conn[h] # "idle") =>
                  ended[h] /\ conn[h] = "dead"

SessionEndClosesAllWitness ==
    /\ last.op = "closeAll"
    /\ Len(Snapshot(last.pre, last.u)) = 2
    /\ \A h \in PreHandles(last.u) : ended[h]

\* C12: a request that carries no identity is rejected: the registry is as
\* it was and no response has been registered for it.
UnauthenticatedRejected ==
    (last.op \in {"connect", "unauthorized", "error"} /\ ~last.authed) =>
        /\ sseConnections = last.pre
        /\ last.h = NoHandle

\* C13 (connection acknowledgment): the first message on every response is
\* the 'connected' event that names the response's identity, and it is the
\* only 'connected' event on it: whatever follows is a transcript event.
ConnectedFirst ==
    \A h \in Handles :
        IF conn[h] = "idle" THEN writes[h] = <<>>
        ELSE /\ Len(writes[h]) >= 1
             /\ writes[h][1].frame =
                    SSEFrame([type |-> "connected", userId |-> userOf[h]])
             /\ \A i \in 2..Len(writes[h]) :
                    writes[h][i].frame.data.type = "transcript"

ConnectedFirstWitness ==
    \E h \in Handles :
        /\ conn[h] = "open"
        /\ Len(writes[h]) = 3
        /\ writes[h][1].frame.data.type = "connected"

\* C14 (per-identity ordering): write calls carry the index of the publish
\* call that issued them.  On every response the indexes grow strictly, a
\* publish reaches only responses of the identity it was made for, with the
\* frame of its own event, and the same publish gives every response the
\* same frame: what a response of u was sent is a subsequence, in order, of
\* the publishes for u.
PerIdentityOrdering ==
    /\ \A h \in Handles : \A i \in 1..(Len(writes[h]) - 1) :
          writes[h][i].seq < writes[h][i + 1].seq
    /\ \A h \in Handles : \A i \in 1..Len(writes[h]) :
          writes[h][i].seq <= nPublished
    /\ \A h, g \in Handles :
          h < g =>
          \A i \in 1..Len(writes[h]), j \in 1..Len(writes[g]) :
             (writes[h][i].seq = writes[g][j].seq /\ writes[h][i].seq > 0) =>
                 /\ writes[h][i].frame = writes[g][j].frame
                 /\ userOf[h] = userOf[g]
    /\ last.op = "publish" =>
          \A h \in Handles :
             CallsOf(h, LastN) # {} =>
                 /\ userOf[h] = last.u
                 /\ writes[h][Len(writes[h])] = LastCall

PerIdentityOrderingWitness ==
    \E h \in Handles :
        /\ Len(writes[h]) = 3
        /\ writes[h][2].seq = 1
        /\ writes[h][3].seq = 2
        /\ writes[h][2].frame # writes[h][3].frame

\* C15 (no replay): a response that is being registered is sent nothing
\* but its 'connected' event, and whatever a registered response is sent
\* later belongs to the publish call made in that very step; an event
\* published before the registration never reaches it.
NoReplay ==
    [][\A h \in Handles :
          /\ (conn[h] = "idle" /\ conn'[h] # "idle") =>
                \A i \in 1..Len(writes'[h]) : writes'[h][i].seq = 0
          /\ (conn[h] # "idle" /\ conn'[h] # "idle") =>
                /\ Len(writes'[h]) >= Len(writes[h])
                /\ SubSeq(writes'[h], 1, Len(writes[h])) = writes[h]
                /\ \A i \in (Len(writes[h]) + 1)..Len(writes'[h]) :
                      /\ nPublished' = nPublished + 1
                      /\ writes'[h][i].seq = nPublished']_vars

NoReplayWitness ==
    /\ last.op = "publish"
    /\ nPublished = 2
    /\ \E h \in PreHandles(last.u) :
          /\ conn[h] = "open"
          /\ CallsOf(h, 2) # {}
          /\ CallsOf(h, 1) = {}

NoLostOrPhantomRegistration ==
    \A u \in Identities :
        Range(Snapshot(sseConnections, u)) =
            {h \in Handles : /\ userOf[h] = u
                             /\ conn[h] \in {"open", "dead"}
                             /\ ~ended[h]}

\* u has reconnected while the close handler of a response that the session
\* disconnect ended is still to run
NoLostOrPhantomRegistrationWitness ==
    \E u \in Identities, h, g \in Handles :
        /\ Snapshot(sseConnections, u) = <<h>>
        /\ userOf[g] = u
        /\ ended[g]
        /\ conn[g] = "dead"

\* C18 (collection well-formedness): no handle is twice in a collection and
\* every handle of a collection is a response of the identity that is the
\* key, so that no handle is under two identities.
WellFormedCollections ==
    /\ \A u \in DOMAIN sseConnections :
          /\ \A i, j \in 1..Len(sseConnections[u]) :
                i # j => sseConnections[u][i] # sseConnections[u][j]
          /\ \A h \in Range(sseConnections[u]) : userOf[h] = u
    /\ \A u, v \in DOMAIN sseConnections :
          u # v => Range(sseConnections[u]) \cap Range(sseConnections[v]) = {}

\* one identity holds many handles while another holds none
WellFormedCollectionsWitness ==
    \E u, v \in Identities :
        /\ Len(Snapshot(sseConnections, u)) = 2
        /\ ~MapHas(sseConnections, v)
        /\ sessions[v] > 0

\* C19: a publish for an identity that is not a key of the registry issues
\* no write call, leaves the registry as it was and raises nothing.
PublishToNobody ==
    (last.op = "publish" /\ ~MapHas(last.pre, last.u)) =>
        /\ \A h \in Handles : CallsOf(h, LastN) = {}
        /\ sseConnections = last.pre
        /\ ~last.threw

PublishToNobodyWitness ==
    /\ last.op = "publish"
    /\ ~MapHas(last.pre, last.u)
    /\ \E v \in Identities : MapHas(sseConnections, v)

\* C20: a publish leaves the key set and every collection of the registry
\* as they were, also when a write fails: a dead handle is still registered
\* after the publish.
PublishKeepsRegistry ==
    last.op = "publish" =>
        /\ DOMAIN sseConnections = DOMAIN last.pre
        /\ \A u \in DOMAIN last.pre : sseConnections[u] = last.pre[u]
        /\ \A h \in PreHandles(last.u) :
              h \in Range(Snapshot(sseConnections, last.u))

PublishKeepsRegistryWitness ==
    /\ last.op = "publish"
    /\ last.threw
    /\ \E h \in Range(Snapshot(sseConnections, last.u)) : conn[h] = "dead"

\* C21 (wire format): a publish for u gives every handle registered for u
\* the frame 'data: ' + JSON + blank line whose JSON has type 'transcript'
\* and the text, timestamp and isFinal that were published; a frame has
\* type 'connected' only when it is the acknowledgment.
WireFormat ==
    /\ last.op = "publish" =>
          \A h \in PreHandles(last.u) :
              \E i \in DOMAIN writes[h] :
                  /\ writes[h][i].seq = LastN
                  /\ writes[h][i].frame =
                        [prefix |-> "data: ",
                         data |-> [type |-> "transcript",
                                   text |-> last.data.text,
                                   timestamp |-> last.data.now,
                                   isFinal |-> last.data.isFinal],
                         suffix |-> "\n\n"]
    /\ \A h \in Handles : \A i \in DOMAIN writes[h] :
          writes[h][i].frame.data.type =
              IF writes[h][i].seq = 0 THEN "connected" ELSE "transcript"

\* C22: every transcription update, interim or final, is published once for
\* the session's userId with its text and isFinal flag as they came: the
\* handle registered first is issued exactly one write call, whose JSON
\* carries them; showTextWall is called only for a final update, with
\* 'You said: ' and the text.
OneForwardPerUpdate ==
    last.op = "publish" =>
        /\ last.data \in Updates
        /\ last.transcript.text = last.data.text
        /\ last.transcript.isFinal = last.data.isFinal
        /\ PreHandles(last.u) # {} =>
              LET first == Head(Snapshot(last.pre, last.u))
              IN  /\ Cardinality(CallsOf(first, LastN)) = 1
                  /\ \A i \in CallsOf(first, LastN) :
                        /\ writes[first][i].frame.data.text = last.data.text
                        /\ writes[first][i].frame.data.isFinal = last.data.isFinal
        /\ last.shown # NotShown =>
              /\ last.data.isFinal
              /\ last.shown = <<"You said: ", last.data.text>>

\* an interim update has been forwarded to a handle and not displayed
OneForwardPerUpdateWitness ==
    /\ last.op = "publish"
    /\ ~last.data.isFinal
    /\ last.shown = NotShown
    /\ \E h \in PreHandles(last.u) : conn[h] = "open" /\ CallsOf(h, LastN) # {}

\* C23 (identities are independent): a registration, a close handler and a
\* session disconnect for u leave the entry of every other identity as it
\* was, and the session disconnect ends no response of another identity.
IdentitiesIndependent ==
    last.op \in {"connect", "close", "closeAll"} =>
        /\ \A v \in DOMAIN sseConnections \cup DOMAIN last.pre :
              v # last.u =>
                  /\ v \in DOMAIN sseConnections
                  /\ v \in DOMAIN last.pre
                  /\ sseConnections[v] = last.pre[v]
        /\ \A h \in Registered(last.pre) \ PreHandles(last.u) : ~ended[h]

\* the session of u disconnects while another identity holds a stream
IdentitiesIndependentWitness ==
    /\ last.op = "closeAll"
    /\ PreHandles(last.u) # {}
    /\ \E v \in Identities \ {last.u} :
          \E h \in Range(Snapshot(sseConnections, v)) : conn[h] = "open"

\* C24 (closeAll against the close path): the close handler of a response
\* that the session disconnect ended changes nothing, whatever has been
\* registered since: the responses registered for the identity afterwards
\* are still registered, so publishes keep reaching them.  In every state
\* the close handler that is still to run for an ended response, the
\* standalone server's as well, would leave the registry as it is.
LateCloseIsNoOp ==
    /\ (last.op = "close" /\ last.wasEnded) =>
          /\ sseConnections = last.pre
          /\ \A g \in Handles :
                (userOf[g] = last.u /\ conn[g] # "idle" /\ ~ended[g]) =>
                    g \in Range(Snapshot(sseConnections, last.u))
    /\ \A h \in Handles :
          (ended[h] /\ conn[h] # "idle") =>
              /\ CloseHandler(sseConnections, userOf[h], h) = sseConnections
              /\ CloseHandlerStandalone(sseConnections, userOf[h], h) =
                     sseConnections

\* h' registered after the session disconnect has received a publish when
\* the close handler of the ended h runs
LateCloseIsNoOpWitness ==
    /\ last.op = "close"
    /\ last.wasEnded
    /\ \E g \in Range(Snapshot(sseConnections, last.u)) :
          /\ g # last.h
          /\ \E n \in 1..nPublished : CallsOf(g, n) # {}

\* C25: every identity that has a handle registered has an active session.
StreamOnlyWithSession ==
    \A u \in DOMAIN sseConnections : sessions[u] > 0

\* C26: when a session of u disconnects while another session of u is
\* active, the registry is as it was and no response of u has been ended.
OverlappingSessionsKeepStreams ==
    (last.op = "closeAll" /\ sessions[last.u] > 0) =>
        /\ sseConnections = last.pre
        /\ \A h \in PreHandles(last.u) : ~ended[h]

\* C27 (no write after removal): a step issues a write call to a response
\* only if the registry holds the response at that moment and res.end() was
\* never called on it; a response that a close handler or a session
\* disconnect has removed is written to by no later publish.
NoWriteAfterRemoval ==
    [][\A h \in Handles :
          (conn[h] # "idle" /\ conn'[h] # "idle" /\ writes'[h] # writes[h]) =>
              /\ h \in Registered(sseConnections)
              /\ ~ended[h]
              /\ ~ended'[h]]_vars

\* a publish has reached the new response of u and not the one that the
\* session disconnect ended
NoWriteAfterRemovalWitness ==
    /\ last.op = "publish"
    /\ \E h \in PreHandles(last.u) : CallsOf(h, LastN) # {}
    /\ \E g \in Handles :
          /\ userOf[g] = last.u
          /\ ended[g]
          /\ CallsOf(g, LastN) = {}

\* C28: a response is registered only under an identity that its request
\* authenticated as, a publish reaches only responses of the identity it is
\* for, and no two requests that carried no identity are in one collection.
OnlyTheAuthenticatedIdentity ==
    /\ \A u \in DOMAIN sseConnections :
          \A h \in Range(sseConnections[u]) : userOf[h] = u
    /\ last.op = "publish" =>
          \A h \in Handles : CallsOf(h, LastN) # {} => userOf[h] = last.u
    /\ \A u \in DOMAIN sseConnections :
          Cardinality({h \in Range(sseConnections[u]) :
                          userOf[h] \notin Identities}) <= 1

\* C29 (route precedence): a GET of /api/transcripts or /api/health is
\* handled by its API handler, in every server file, whatever NODE_ENV is
\* and whether or not the frontend bundle exists.
ApiRoutesFirst ==
    \A i \in DOMAIN served :
        /\ served[i].path = "/api/transcripts" => served[i].by = "transcripts"
        /\ served[i].path = "/api/health" => served[i].by = "health"

\* the component's current EventSource is open
Connected ==
    eventSourceRef # NoSource /\ readyState[eventSourceRef] = "open"

\* the effect is active: the component is mounted and has a token
EffectActive == mounted /\ frontendToken # NoToken

\* C30 (client reconnect loop): an error of the current EventSource is
\* followed, once its timeout has run, by a new EventSource being the
\* current one, unless the effect was cleaned up in between; and a mounted
\* client with a token, whatever errors came before, is connected again
\* once the backend accepts connections and keeps doing so.
ReconnectLoop ==
    /\ \A e \in Sources :
          (eventSourceRef = e /\ e \in timers) ~> (eventSourceRef # e)
    /\ (EffectActive /\ serverUp) ~> (Connected \/ ~EffectActive \/ ~serverUp)

\* the effect ran once, its stream failed for good twice, and the third
\* EventSource, made by the retry, is the current one and open
ReconnectLoopWitness ==
    /\ Connected
    /\ nEffects = 1
    /\ nErrors = 2
    /\ eventSourceRef = 3
    /\ readyState[1] = "closed"
    /\ readyState[2] = "closed"

\* the EventSources of the mounted component that are not closed
NotClosed == {e \in Sources : /\ owner[e] \in {"live", "cleaned"}
                              /\ readyState[e] \in {"connecting", "open"}}

\* C31: a mounted TranscriptDisplay has at most one EventSource that is not
\* closed, and none while frontendToken is absent: a reconnect leaves no
\* earlier EventSource of the component open next to the new one.
AtMostOneEventSource ==
    mounted => /\ Cardinality(NotClosed) <= 1
               /\ frontendToken = NoToken => NotClosed = {}

\* the EventSources made by an effect run whose cleanup has run
CleanedUp == {e \in Sources : owner[e] \in {"cleaned", "gone"}}

\* C32: after the effect's cleanup has run (unmount, or a change of token),
\* every EventSource the effect created is closed, and no pending retry
\* timer of such an EventSource will create a new connection: the timer's
\* test eventSourceRef.current === eventSource fails.
CleanupClosesAll ==
    \A e \in CleanedUp :
        /\ readyState[e] = "closed"
        /\ e \in timers => eventSourceRef # e

\* onopen or onerror of e runs
EventOf(e) == Open(e) \/ \E fatal \in BOOLEAN : StreamError(e, fatal)

\* C33: the connection indicator follows the current stream: isConnected
\* is true only when eventSourceRef.current has opened and has not errored
\* since, and an event of a superseded EventSource changes neither
\* isConnected nor the error banner.
IndicatorFollowsCurrent ==
    [][/\ isConnected' => Connected'
       /\ \A e \in Sources :
             (e # eventSourceRef /\ EventOf(e)) =>
                 UNCHANGED <<isConnected, connectionError>>]_vars

\* event.data is a message of type 'transcript'
IsTranscript(data) ==
    /\ DOMAIN data \cap {"garbage", "null"} = {}
    /\ "type" \in DOMAIN data
    /\ data.type = "transcript"

\* the text of the most recent 'transcript' message among msgs, "" when it
\* has none or there is no such message
RECURSIVE LatestText(_)
LatestText(msgs) ==
    IF msgs = <<>> THEN ""
    ELSE LET m == msgs[Len(msgs)] IN
         IF IsTranscript(m)
         THEN IF "text" \in DOMAIN m THEN m.text ELSE ""
         ELSE LatestText(SubSeq(msgs, 1, Len(msgs) - 1))

\* C34: after any sequence of SSE messages the displayed transcript is the
\* text of the most recent message of type 'transcript' ("" if it has no
\* text, or if none arrived); 'connected' messages and unparsable ones
\* leave it unchanged.
DisplayedIsLatest == currentTranscript = LatestText(received)

\* a transcript was shown, and the messages after it, none of them of type
\* 'transcript', left it on display
DisplayedIsLatestWitness ==
    /\ Len(received) = MaxMessages
    /\ IsTranscript(received[1])
    /\ ~IsTranscript(received[MaxMessages])
    /\ currentTranscript = "hi"

\* the last request was a GET /api/transcripts that the cors middleware
\* let through, or turned away
CorsAccepted == last.op \in {"connect", "unauthorized"}
CorsRejected == last.op = "corsError"

\* C35 as stated: a request passes the CORS check if and only if it has no
\* Origin header or its Origin is a member of ALLOWED_ORIGINS; a request
\* of any other origin is turned away before the /api/transcripts handler
\* runs, and no handle is registered for it.
CorsAllowListNoHeader ==
    (CorsAccepted \/ CorsRejected) =>
        /\ CorsAccepted <=>
              (last.origin = Undefined \/ last.origin \in AllowedOrigins)
        /\ CorsRejected => (sseConnections = last.pre /\ last.h = NoHandle)

\* C35 (CORS allow-list): a request passes the CORS check if and only if
\* it has no Origin header, an Origin header with an empty value, or an
\* Origin that is a member of ALLOWED_ORIGINS; a request of any other
\* origin is turned away before the /api/transcripts handler runs, and no
\* handle is registered for it.
CorsAllowList ==
    (CorsAccepted \/ CorsRejected) =>
        /\ CorsAccepted <=>
              (last.origin \in {Undefined, ""}
                 \/ last.origin \in AllowedOrigins)
        /\ CorsRejected => (sseConnections = last.pre /\ last.h = NoHandle)

\* a request of an origin that is not allowed was turned away while a
\* stream of an allowed origin is registered
CorsAllowListWitness ==
    /\ CorsRejected
    /\ last.origin = "https://evil.example"
    /\ sseConnections # <<>>

\* C36: the standalone server's registry and the class-based server's are
\* equivalent: after every sequence of register, close and publish events
\* on the same identities and handles both have the same registry and
\* have made the same writes on the same handles, a publish fails on both
\* or on neither, and their close handlers agree on every identity and
\* handle, the identities without an entry included.
RegistriesEquivalent ==
    /\ standalone.sseConnections = sseConnections
    /\ standalone.writes = writes
    /\ last.op = "publish" => standalone.threw = last.threw
    /\ \A u \in Identities, h \in Handles :
          CloseHandlerStandalone(standalone.sseConnections, u, h) =
              CloseHandler(sseConnections, u, h)

\* a publish to a user with two streams, the first of them dead, failed
\* on both servers at the first write, and the second stream got nothing
RegistriesEquivalentWitness ==
    /\ last.op = "publish"
    /\ standalone.threw
    /\ last.u \in DOMAIN standalone.sseConnections
    /\ Len(standalone.sseConnections[last.u]) = 2
    /\ \E h \in Range(standalone.sseConnections[last.u]) :
          /\ Len(standalone.writes[h]) = 1
          /\ Len(writes[h]) = 1
============================================================================
